---- MODULE Spec2Model ----
(***************************************************************************)
(* The conversational shopping assistant of backend/app: the persisted     *)
(* turn log (services/conversation.py), the context builder                *)
(* (services/context_manager.py), the streaming dispatch loop              *)
(* (api/chat.py, chat_stream / event_generator), the graph loop of the     *)
(* non-streaming endpoint (agent/graph.py, api/chat.py chat), and the cart *)
(* (agent/tools.py, api/cart.py).                                          *)
(*                                                                         *)
(* A text is a sequence of atoms (string pieces); concatenation is \o.     *)
(* The character length and the token count of a text are the sums of its  *)
(* atoms' lengths and token counts.                                        *)
(***************************************************************************)
EXTENDS Integers, Sequences, FiniteSets, TLC

VARIABLES
    messages_table,   \* rows of the messages table, in insertion order
    now,              \* the store's clock (func.now())
    pc,               \* position of the request being served
    endpoint,         \* "none", "stream" (POST /stream) or "chat" (POST "")
    body,             \* the ChatRequest
    conversation_id,  \* conversation_id of the request
    db_messages,      \* result of load_messages / argument of build_context
    messages,         \* result of build_context (the context window)
    summarizer_calls, \* summarize_messages calls made: argument and result
    current_messages, \* event_generator's list / the graph state's messages
    full_response,    \* event_generator's accumulated answer text
    tool_rounds,      \* event_generator's round counter
    response,         \* the AIMessage of the latest ainvoke
    tool_idx,         \* index of the next tool call of response to execute
    events,           \* SSE events yielded so far
    reply,            \* ChatResponse.reply of the non-streaming endpoint
    llm_calls,        \* the model invocations made so far: "ainvoke" / "astream"
    submitted,        \* the message list given to the latest model invocation
    env,              \* what the collaborators did so far in this turn
    cart_items,       \* rows of the cart_items table, in insertion order
    cart_call,        \* the latest cart operation: its caller, arguments and result
    sessions          \* the store sessions of concurrent add_to_cart operations

storeVars == <<messages_table, now>>
reqVars == <<endpoint, body, conversation_id>>
ctxVars == <<db_messages, messages, summarizer_calls>>
loopVars == <<current_messages, full_response, tool_rounds, response, tool_idx>>
outVars == <<events, reply>>
llmVars == <<llm_calls, submitted, env>>
cartVars == <<cart_items, cart_call, sessions>>

vars == <<pc, storeVars, reqVars, ctxVars, loopVars, outVars, llmVars, cartVars>>

----------------------------------------------------------------------------
(* Program constants *)

MAX_HISTORY_TOKENS == 4000
MIN_RECENT_MESSAGES == 6
MAX_TOOL_ROUNDS == 5
MAX_MESSAGE_LENGTH == 2000

(* Bounds of the model *)

\* longest message list given to build_context in SpecCtx
MaxHist == 7
\* most rows saved to the messages table in SpecLog
MaxRows == 3
\* the latest reading of the store's clock in SpecLog
MaxClock == 2
\* the largest quantity of a cart line in SpecCart
MaxQuantity == 2
\* most model responses of one turn that carry tool calls
MaxToolResponses == 7
\* most tool calls of one turn beyond the first of each response
MaxExtraCalls == 1
\* most tool calls of one turn that fail: unknown tool names and tools that raise
MaxToolFailures == 1
\* most chunks of one streamed answer
MaxChunks == 2

----------------------------------------------------------------------------
(* Texts *)

None == "None"

\* the tool_call_id of a message that answers no tool call
NoId == <<>>

\* len() of one atom, in characters
AtomChars(a) ==
    CASE a = "hi" -> 2
      [] a = "x2000" -> 2000
      [] a = "x2001" -> 2001
      [] a = "big" -> 16000
      [] a = "essay" -> 20000
      [] OTHER -> 10

\* number of tokens ENCODER.encode gives for one atom
AtomTokens(a) ==
    CASE a = "hi" -> 1
      [] a = "x2000" -> 250
      [] a = "x2001" -> 251
      [] a = "big" -> 3994
      [] a = "essay" -> 4001
      [] OTHER -> 2

RECURSIVE SumOver(_, _)
SumOver(s, i) ==
    IF i > Len(s) THEN 0 ELSE s[i] + SumOver(s, i + 1)

\* len(text)
len(text) == SumOver([i \in 1..Len(text) |-> AtomChars(text[i])], 1)

\* count_tokens(text) = len(ENCODER.encode(text))
count_tokens(text) == SumOver([i \in 1..Len(text) |-> AtomTokens(text[i])], 1)

\* whether the sequence sub occurs in text at position p
OccursAt(text, sub, p) ==
    /\ p + Len(sub) - 1 <= Len(text)
    /\ \A i \in 1..Len(sub) : text[p + i - 1] = sub[i]

----------------------------------------------------------------------------
(* LangChain messages *)

HumanMessage(c) ==
    [type |-> "human", content |-> c, tool_calls |-> <<>>,
     tool_call_id |-> NoId, name |-> None]

AIMessage(c, calls) ==
    [type |-> "ai", content |-> c, tool_calls |-> calls,
     tool_call_id |-> NoId, name |-> None]

SystemMessage(c) ==
    [type |-> "system", content |-> c, tool_calls |-> <<>>,
     tool_call_id |-> NoId, name |-> None]

ToolMessage(c, id, nm) ==
    [type |-> "tool", content |-> c, tool_calls |-> <<>>,
     tool_call_id |-> id, name |-> nm]

SYSTEM_PROMPT == <<"SYSTEM_PROMPT">>

SUMMARY_PREFIX == <<"Summary of earlier conversation:\n">>

----------------------------------------------------------------------------
(* services/context_manager.py *)

\* messages_to_langchain: "user" rows become HumanMessage, all others AIMessage
messages_to_langchain(rows) ==
    [i \in 1..Len(rows) |->
        IF rows[i].role = "user"
        THEN HumanMessage(rows[i].content)
        ELSE AIMessage(rows[i].content, <<>>)]

\* total_tokens = sum(count_tokens(m.content) for m in lc_messages)
total_tokens(lc) == SumOver([i \in 1..Len(lc) |-> count_tokens(lc[i].content)], 1)

\* Python's s[-k:] for k > 0
SliceLast(s, k) ==
    IF Len(s) <= k THEN s ELSE SubSeq(s, Len(s) - k + 1, Len(s))

\* Python's s[:-k] for k > 0
SliceButLast(s, k) ==
    IF Len(s) <= k THEN <<>> ELSE SubSeq(s, 1, Len(s) - k)

UnderBudgetStrict(total) == total < MAX_HISTORY_TOKENS

\* "if total_tokens <= MAX_HISTORY_TOKENS"
UnderBudget(total) == total <= MAX_HISTORY_TOKENS

RecentOneFewer(lc) == SliceLast(lc, MIN_RECENT_MESSAGES - 1)

\* recent = lc_messages[-MIN_RECENT_MESSAGES:]
Recent(lc) == SliceLast(lc, MIN_RECENT_MESSAGES)

OldOneMore(lc) == SliceButLast(lc, MIN_RECENT_MESSAGES - 1)

\* old = lc_messages[:-MIN_RECENT_MESSAGES]
Old(lc) == SliceButLast(lc, MIN_RECENT_MESSAGES)

\* the return value [SystemMessage("Summary of earlier conversation:\n" + summary)] + recent
SummaryWindow(summary, recent) ==
    <<SystemMessage(SUMMARY_PREFIX \o summary)>> \o recent

\* digests the summarizer model may return (response.content)
Digests == {<<"digest">>, <<>>}

\* build_context up to its return or its await of summarize_messages
BuildContext ==
    /\ pc = "build_context"
    /\ LET lc == messages_to_langchain(db_messages) IN
        IF db_messages = <<>>
        THEN /\ messages' = <<>>
             /\ pc' = "built"
             /\ UNCHANGED summarizer_calls
        ELSE IF UnderBudget(total_tokens(lc))
        THEN /\ messages' = lc
             /\ pc' = "built"
             /\ UNCHANGED summarizer_calls
        ELSE IF Old(lc) = <<>>
        THEN /\ messages' = Recent(lc)
             /\ pc' = "built"
             /\ UNCHANGED summarizer_calls
        ELSE /\ summarizer_calls' =
                    Append(summarizer_calls, [messages |-> Old(lc), result |-> None])
             /\ pc' = "summarize"
             /\ UNCHANGED messages
    /\ UNCHANGED <<db_messages, storeVars, reqVars, loopVars, outVars, llmVars,
                   cartVars>>

\* summarize_messages returns: build_context returns [summary] + recent
SummarizeReturns ==
    /\ pc = "summarize"
    /\ \E summary \in Digests :
        /\ messages' = SummaryWindow(summary, Recent(messages_to_langchain(db_messages)))
        /\ summarizer_calls' =
              [summarizer_calls EXCEPT ![Len(summarizer_calls)].result = summary]
    /\ pc' = "built"
    /\ UNCHANGED <<db_messages, storeVars, reqVars, loopVars, outVars, llmVars,
                   cartVars>>

SummarizeRaisesSwallowed ==
    /\ pc = "summarize"
    /\ messages' = SummaryWindow(<<>>, Recent(messages_to_langchain(db_messages)))
    /\ pc' = "built"
    /\ UNCHANGED <<db_messages, summarizer_calls, storeVars, reqVars, loopVars,
                   outVars, llmVars, cartVars>>

\* summarizer.ainvoke raises: the exception leaves build_context
SummarizeRaises ==
    /\ pc = "summarize"
    /\ pc' = "raised"
    /\ UNCHANGED <<storeVars, reqVars, ctxVars, loopVars, outVars, llmVars,
                   cartVars>>

----------------------------------------------------------------------------
(* Rows of the messages table *)

Row(cid, role, content, at) ==
    [conversation_id |-> cid, role |-> role, content |-> content, created_at |-> at]

\* rows build_context is applied to in SpecCtx
CtxRows ==
    {Row("c1", "user", <<"hi">>, 0), Row("c1", "assistant", <<"big">>, 0),
     Row("c1", "user", <<"big">>, 0), Row("c1", "assistant", <<"essay">>, 0)}

RECURSIVE SeqsUpTo(_, _)
SeqsUpTo(S, n) ==
    IF n = 0 THEN {<<>>}
    ELSE LET shorter == SeqsUpTo(S, n - 1) IN
         shorter \cup {Append(s, x) : s \in {t \in shorter : Len(t) = n - 1}, x \in S}

NoRequest == [user_id |-> None, message |-> <<>>, conversation_id |-> None]

NoResponse == AIMessage(<<>>, <<>>)

\* the tool names the model requests: a registered one and an unknown one
RequestedNames == {"add_to_cart", "lookup_weather"}

\* the sets of tool names the model draws its requests from in one turn: a tool
\* that changes the cart or one that only reads it, and an unknown one
TurnNames == {RequestedNames, {"get_current_cart", "lookup_weather"}}

\* what the collaborators did in this turn: the responses with tool calls, the
\* tool calls beyond the first of each, the failing tool calls, the chunks
\* streamed, the kind of each ainvoke outcome, the ids of the calls that failed,
\* whether astream raised, the tool names the model requests in this turn
NoEnv ==
    [tool_responses |-> 0, extra_calls |-> 0, failures |-> 0, chunks |-> 0,
     kinds |-> <<>>, failed |-> {}, stream_raised |-> FALSE,
     names |-> RequestedNames]

\* no cart operation was called yet
NoCall ==
    [api |-> "none", op |-> None, user_id |-> None, product_id |-> 0,
     quantity |-> 0, item |-> 0, text |-> <<>>, items |-> <<>>, raised |-> FALSE]

\* the store sessions of the requests that add to the cart at the same time
Sessions == {1, 2}

\* a session that executed nothing yet
NoSession ==
    [pc |-> "idle", api |-> "none", user_id |-> None, product_id |-> 0,
     quantity |-> 0, found |-> 0, seen |-> 0, text |-> <<>>, raised |-> FALSE]

NoSessions == [s \in Sessions |-> NoSession]

\* build_context applied to every bounded message list
InitCtx ==
    /\ db_messages \in SeqsUpTo(CtxRows, MaxHist)
    /\ pc = "build_context"
    /\ messages_table = <<>>
    /\ now = 1
    /\ endpoint = "none"
    /\ body = NoRequest
    /\ conversation_id = None
    /\ messages = <<>>
    /\ summarizer_calls = <<>>
    /\ current_messages = <<>>
    /\ full_response = <<>>
    /\ tool_rounds = 0
    /\ response = NoResponse
    /\ tool_idx = 0
    /\ events = <<>>
    /\ reply = None
    /\ llm_calls = <<>>
    /\ submitted = <<>>
    /\ env = NoEnv
    /\ cart_items = <<>>
    /\ cart_call = NoCall
    /\ sessions = NoSessions

NextCtx == BuildContext \/ SummarizeReturns \/ SummarizeRaises

SpecCtx == InitCtx /\ [][NextCtx]_vars

----------------------------------------------------------------------------
(* services/conversation.py *)

\* save_message: db.add(Message(...)); await db.commit()
save_message(table, cid, role, content, at) ==
    Append(table, Row(cid, role, content, at))

\* the rows of a conversation, as select ... where conversation_id == cid gives them
RowsOf(table, cid) ==
    LET Idx == {i \in 1..Len(table) : table[i].conversation_id = cid} IN
    LET RECURSIVE Pick(_, _)
        Pick(i, acc) ==
            IF i > Len(table) THEN acc
            ELSE Pick(i + 1, IF i \in Idx THEN Append(acc, table[i]) ELSE acc)
    IN Pick(1, <<>>)

\* whether a sequence of rows is in order_by(Message.created_at.asc()) order
OrderedByCreatedAt(rows) ==
    \A i \in 1..Len(rows) - 1 : rows[i].created_at <= rows[i + 1].created_at

\* the sequences of the rows of table at the indices S that a select with
\* order_by(Message.created_at.asc()) may return: rows with a smaller created_at
\* come first, and the order of rows with equal created_at is left to the store
RECURSIVE Orderings(_, _)
Orderings(table, S) ==
    IF S = {} THEN {<<>>}
    ELSE LET first == {i \in S : \A j \in S : table[i].created_at <= table[j].created_at}
         IN UNION {{<<table[i]>> \o rest : rest \in Orderings(table, S \ {i})} :
                       i \in first}

load_messagesUnscoped(table, cid) == Orderings(table, 1..Len(table))

\* load_messages: the lists that select(Message).where(Message.conversation_id
\* == conversation_id).order_by(Message.created_at.asc()) may return
load_messages(table, cid) ==
    Orderings(table, {i \in 1..Len(table) : table[i].conversation_id = cid})

----------------------------------------------------------------------------
(* agent/tools.py, agent/graph.py: the tool registry *)

ALL_TOOLS ==
    {"search_products", "get_product_details", "add_to_cart", "remove_from_cart",
     "clear_cart", "get_current_cart", "compare_products"}

\* TOOL_MAP = {t.name: t for t in ALL_TOOLS}: the names it has a tool for
TOOL_MAP == ALL_TOOLS

\* what str(result) of a tool that returned is
ToolResultText(name) == <<"result of ", name>>

\* the id the model gives the i-th tool call of the response to its r-th invocation
CallId(r, i) == <<r, i>>

\* the number of calls of a tool-call list that name no registered tool
UnknownNames(calls) == Cardinality({i \in 1..Len(calls) : calls[i].name \notin TOOL_MAP})

\* tool_call["args"]: the model asks for one piece of product 1
ToolArgs == [product_id |-> 1, quantity |-> 1]

\* the tool-call lists the response to invocation r may carry, of length n
RECURSIVE CallLists(_, _)
CallLists(r, n) ==
    IF n = 0 THEN {<<>>}
    ELSE {Append(cs, [name |-> nm, id |-> CallId(r, n), args |-> ToolArgs]) :
            cs \in CallLists(r, n - 1), nm \in env.names}

\* the model answers an invocation with the tool calls `calls`
RequestsTools(calls) ==
    /\ env.tool_responses < MaxToolResponses
    /\ env.extra_calls + Len(calls) - 1 <= MaxExtraCalls
    /\ env.failures + UnknownNames(calls) <= MaxToolFailures
    /\ env' = [env EXCEPT !.tool_responses = @ + 1,
                          !.extra_calls = @ + Len(calls) - 1,
                          !.failures = @ + UnknownNames(calls),
                          !.kinds = Append(@, "tools")]

----------------------------------------------------------------------------
(* agent/tools.py and api/cart.py: the cart *)

\* the ids of the rows of the products table
Products == {1, 2}

\* the product ids callers ask for: the catalog's and one that is not in it
ProductIds == Products \cup {99}

Users == {"u1", "u2"}

\* the quantities callers ask for
Quantities == {1, 2}

\* CartItem(user_id=..., product_id=..., quantity=...)
CartItem(u, p, q) == [user_id |-> u, product_id |-> p, quantity |-> q]

\* the rows of cart at the indices that are not in S, in order
Delete(cart, S) ==
    LET RECURSIVE Keep(_)
        Keep(i) ==
            IF i > Len(cart) THEN <<>>
            ELSE (IF i \in S THEN <<>> ELSE <<cart[i]>>) \o Keep(i + 1)
    IN Keep(1)

\* select(CartItem).where(CartItem.user_id == user_id): the indices of the rows
SelectUser(cart, u) == {i \in 1..Len(cart) : cart[i].user_id = u}

SelectProductOnly(cart, u, p) == {i \in 1..Len(cart) : cart[i].product_id = p}

\* select(CartItem).where(CartItem.user_id == user_id,
\*                        CartItem.product_id == product_id)
Select(cart, u, p) ==
    {i \in 1..Len(cart) : cart[i].user_id = u /\ cart[i].product_id = p}

\* scalar_one_or_none() raises MultipleResultsFound for more than one row
MultipleResultsFound(S) == Cardinality(S) > 1

\* what a cart operation leaves and returns: the table, the returned text, the
\* cart lines it lists, and whether it raised instead of returning
Out(cart, text, items, raised) ==
    [cart |-> cart, text |-> text, items |-> items, raised |-> raised]

UpsertAlwaysAdds(cart, u, p, q) == Append(cart, CartItem(u, p, q))

\* "if cart_item: cart_item.quantity += quantity
\*   else: db.add(CartItem(...))", then db.commit()
Upsert(cart, u, p, q) ==
    LET S == Select(cart, u, p) IN
    IF S = {} THEN Append(cart, CartItem(u, p, q))
    ELSE LET i == CHOOSE i \in S : TRUE IN [cart EXCEPT ![i].quantity = @ + q]

\* add_to_cart without the lookup of the product
add_to_cartUnchecked(cart, u, p, q) ==
    Out(Upsert(cart, u, p, q),
        <<"Added ", "quantity", "x ", "product.name", " to your cart.">>,
        <<>>, FALSE)

\* the tool add_to_cart(product_id, quantity) called for user u
add_to_cart(cart, u, p, q) ==
    IF p \notin Products
    THEN Out(cart, <<"Product with ID ", "product_id", " not found.">>, <<>>, FALSE)
    ELSE IF MultipleResultsFound(Select(cart, u, p))
    THEN Out(cart, <<"MultipleResultsFound">>, <<>>, TRUE)
    ELSE Out(Upsert(cart, u, p, q),
             <<"Added ", "quantity", "x ", "product.name", " to your cart.">>,
             <<>>, FALSE)

\* the tool remove_from_cart(product_id) called for user u
remove_from_cart(cart, u, p) ==
    LET S == Select(cart, u, p) IN
    IF MultipleResultsFound(S)
    THEN Out(cart, <<"MultipleResultsFound">>, <<>>, TRUE)
    ELSE IF S = {}
    THEN Out(cart, <<"That product is not in your cart.">>, <<>>, FALSE)
    ELSE Out(Delete(cart, S), <<"Removed the item from your cart.">>, <<>>, FALSE)

\* the tool clear_cart() called for user u
clear_cart(cart, u) ==
    LET S == SelectUser(cart, u) IN
    Out(Delete(cart, S),
        IF S = {} THEN <<"Your cart is already empty.">>
        ELSE <<"Done! Removed all ", "rowcount", " item(s) from your cart.">>,
        <<>>, FALSE)

\* the tool get_current_cart() called for user u: it lists u's rows
get_current_cart(cart, u) ==
    LET items == Delete(cart, (1..Len(cart)) \ SelectUser(cart, u)) IN
    Out(cart,
        IF items = <<>> THEN <<"Your cart is empty.">> ELSE <<"lines", "Total">>,
        items, FALSE)

\* POST /cart (api/cart.py add_to_cart): 404 for an unknown product, else the
\* same upsert with body.user_id
api_add_to_cart(cart, u, p, q) ==
    IF p \notin Products
    THEN Out(cart, <<"404 Product not found">>, <<>>, TRUE)
    ELSE IF MultipleResultsFound(Select(cart, u, p))
    THEN Out(cart, <<"MultipleResultsFound">>, <<>>, TRUE)
    ELSE Out(Upsert(cart, u, p, q), <<"201">>, <<>>, FALSE)

\* DELETE /cart/{item_id} (api/cart.py remove_from_cart); a row is identified
\* by its index in the table
api_remove_from_cart(cart, item) ==
    IF item \notin 1..Len(cart)
    THEN Out(cart, <<"404 Cart item not found">>, <<>>, TRUE)
    ELSE Out(Delete(cart, {item}), <<"204">>, <<>>, FALSE)

\* tool_fn.ainvoke(tool_call["args"]) with user_id_var set to user
InvokeTool(call, cart, user) ==
    CASE call.name = "add_to_cart" ->
            add_to_cart(cart, user, call.args.product_id, call.args.quantity)
      [] call.name = "remove_from_cart" ->
            remove_from_cart(cart, user, call.args.product_id)
      [] call.name = "clear_cart" -> clear_cart(cart, user)
      [] call.name = "get_current_cart" -> get_current_cart(cart, user)
      [] OTHER -> Out(cart, ToolResultText(call.name), <<>>, FALSE)

\* the table after the tools of calls from the i-th on ran one after another
RECURSIVE RunTools(_, _, _, _)
RunTools(calls, i, cart, user) ==
    IF i > Len(calls) THEN cart
    ELSE RunTools(calls, i + 1, InvokeTool(calls[i], cart, user).cart, user)

----------------------------------------------------------------------------
(* api/chat.py: POST /stream *)

REJECT_TEXT == <<"Your message is too long. Please keep it under 2000 characters.">>

FALLBACK_TEXT == <<"I got a bit lost processing your request. Could you try rephrasing?">>

ERROR_TEXT == <<"Sorry, I encountered an error. Please try again in a moment.">>

\* f"Tool error: unable to complete {tool_name}. Please try again."
ToolErrorText(tool_name) ==
    <<"Tool error: unable to complete ", tool_name, ". Please try again.">>

\* FRIENDLY_NAMES.get(tool_name, f"Running {tool_name}...")
FriendlyName(tool_name) ==
    CASE tool_name = "search_products" -> <<"Searching products...">>
      [] tool_name = "get_product_details" -> <<"Getting product details...">>
      [] tool_name = "add_to_cart" -> <<"Adding to cart...">>
      [] tool_name = "remove_from_cart" -> <<"Removing from cart...">>
      [] tool_name = "get_current_cart" -> <<"Checking your cart...">>
      [] tool_name = "compare_products" -> <<"Comparing products...">>
      [] OTHER -> <<"Running ", tool_name, "...">>

CartToolsAll == TOOL_MAP

\* "if tool_name in ("add_to_cart", "remove_from_cart", "clear_cart")"
CartTools == {"add_to_cart", "remove_from_cart", "clear_cart"}

\* the dict given to sse_event
Event(type, content, cid) == [type |-> type, content |-> content, conversation_id |-> cid]

TokenEvent(content) == Event("token", content, None)

StatusEvent(content) == Event("status", content, None)

CartUpdatedEvent == Event("cart_updated", <<>>, None)

DoneEvent(cid) == Event("done", <<>>, cid)

\* Python's "x or y" for an optional string x
Or(x, y) == IF x = None \/ x = "" THEN y ELSE x

\* str(uuid.uuid4())
uuid4 == "uuid-1"

TooLongInclusive(message) == len(message) >= MAX_MESSAGE_LENGTH

\* "if len(body.message) > MAX_MESSAGE_LENGTH"
TooLong(message) == len(message) > MAX_MESSAGE_LENGTH

\* the requests served
Requests ==
    [user_id : {"u1"}, message : {<<"x2000">>, <<"x2001">>},
     conversation_id : {None, "c1"}]

\* chat_stream, lines 50-61: the input validation; a message that is too long
\* is answered by the reject() generator
chat_stream ==
    /\ pc = "idle"
    /\ \E b \in Requests :
        /\ body' = b
        /\ endpoint' = "stream"
        /\ IF TooLong(b.message)
           THEN /\ events' = <<TokenEvent(REJECT_TEXT),
                               DoneEvent(Or(b.conversation_id, ""))>>
                /\ pc' = "closed"
                /\ UNCHANGED conversation_id
           ELSE /\ conversation_id' = Or(b.conversation_id, uuid4)
                /\ pc' = "save_user"
                /\ UNCHANGED events
    /\ UNCHANGED <<reply, storeVars, ctxVars, loopVars, llmVars, cartVars>>

\* await save_message(db, conversation_id, "user", body.message)
SaveUser ==
    /\ pc = "save_user"
    /\ messages_table' = save_message(messages_table, conversation_id, "user",
                                      body.message, now)
    /\ now' = now + 1
    /\ pc' = "load_messages"
    /\ UNCHANGED <<reqVars, ctxVars, loopVars, outVars, llmVars, cartVars>>

\* the store fails in save_message: the exception leaves the endpoint function
SaveUserRaises ==
    /\ pc = "save_user"
    /\ pc' = "raised"
    /\ UNCHANGED <<storeVars, reqVars, ctxVars, loopVars, outVars, llmVars,
                   cartVars>>

\* db_messages = await load_messages(db, conversation_id)
LoadMessages ==
    /\ pc = "load_messages"
    /\ db_messages' \in load_messages(messages_table, conversation_id)
    /\ pc' = "build_context"
    /\ UNCHANGED <<messages, summarizer_calls, storeVars, reqVars, loopVars,
                   outVars, llmVars, cartVars>>

\* the store fails in load_messages
LoadMessagesRaises ==
    /\ pc = "load_messages"
    /\ pc' = "raised"
    /\ UNCHANGED <<storeVars, reqVars, ctxVars, loopVars, outVars, llmVars,
                   cartVars>>

HasSystemMessage(msgs) == \E i \in 1..Len(msgs) : msgs[i].type = "system"

\* "if not any(isinstance(m, SystemMessage) for m in messages):
\*      messages = [SystemMessage(content=SYSTEM_PROMPT)] + messages"
WithSystemPrompt(msgs) ==
    IF HasSystemMessage(msgs) THEN msgs ELSE <<SystemMessage(SYSTEM_PROMPT)>> \o msgs

\* event_generator, lines 68-82, up to the first ainvoke
StartGenerator ==
    /\ pc = "built"
    /\ endpoint = "stream"
    /\ current_messages' = WithSystemPrompt(messages)
    /\ full_response' = <<>>
    /\ tool_rounds' = 0
    /\ pc' = "ainvoke"
    /\ UNCHANGED <<response, tool_idx, storeVars, reqVars, ctxVars, outVars, llmVars,
                   cartVars>>

ExceptUncaught ==
    /\ pc' = "raised"
    /\ UNCHANGED <<full_response, events, cartVars>>

\* the except branch of event_generator, lines 144-148
Except ==
    /\ full_response' = ERROR_TEXT
    /\ events' = events \o <<StatusEvent(<<>>), TokenEvent(ERROR_TEXT)>>
    /\ pc' = "save_assistant"

\* llm_with_tools.ainvoke(current_messages) is called
Invoked(api, msgs) ==
    /\ llm_calls' = Append(llm_calls, api)
    /\ submitted' = msgs

RoundLimitInclusive(rounds) == rounds >= MAX_TOOL_ROUNDS

\* a ceiling that lets one more round through
RoundLimitOneMore(rounds) == rounds > MAX_TOOL_ROUNDS + 1

\* "if tool_rounds > MAX_TOOL_ROUNDS"
RoundLimitExceeded(rounds) == rounds > MAX_TOOL_ROUNDS

\* ainvoke returns a response with tool calls, lines 86-104
AInvokeToolCalls ==
    /\ pc = "ainvoke"
    /\ Invoked("ainvoke", current_messages)
    /\ \E n \in 1..(MaxExtraCalls + 1) :
        \E calls \in CallLists(Len(llm_calls) + 1, n) :
            /\ RequestsTools(calls)
            /\ response' = AIMessage(<<>>, calls)
    /\ tool_rounds' = tool_rounds + 1
    /\ IF RoundLimitExceeded(tool_rounds')
       THEN /\ full_response' = FALLBACK_TEXT
            /\ events' = events \o <<StatusEvent(<<>>), TokenEvent(FALLBACK_TEXT)>>
            /\ pc' = "save_assistant"
            /\ UNCHANGED <<current_messages, tool_idx>>
       ELSE /\ current_messages' = Append(current_messages, response')
            /\ tool_idx' = 1
            /\ pc' = "tool"
            /\ UNCHANGED <<full_response, events>>
    /\ UNCHANGED <<reply, storeVars, reqVars, ctxVars, cartVars>>

\* the texts a response without tool calls carries
AnswerTexts == {<<"answer">>}

\* ainvoke returns a response without tool calls, lines 131-132
AInvokeText ==
    /\ pc = "ainvoke"
    /\ Invoked("ainvoke", current_messages)
    /\ \E c \in AnswerTexts : response' = AIMessage(c, <<>>)
    /\ env' = [env EXCEPT !.kinds = Append(@, "text")]
    /\ events' = Append(events, StatusEvent(<<>>))
    /\ pc' = "astream"
    /\ UNCHANGED <<current_messages, full_response, tool_rounds, tool_idx, reply,
                   storeVars, reqVars, ctxVars, cartVars>>

\* ainvoke raises
AInvokeRaises ==
    /\ pc = "ainvoke"
    /\ Invoked("ainvoke", current_messages)
    /\ env' = [env EXCEPT !.kinds = Append(@, "raise")]
    /\ Except
    /\ UNCHANGED <<current_messages, tool_rounds, response, tool_idx, reply,
                   storeVars, reqVars, ctxVars, cartVars>>

ToolMessageUntagged(result, call) == ToolMessage(result, NoId, call.name)

\* ToolMessage(content=str(result), tool_call_id=tool_call["id"], name=tool_call["name"])
ToolMessageFor(result, call) == ToolMessage(result, call.id, call.name)

\* lines 108-111 and 120-127 for one tool call whose result is known, and the
\* step to the next tool call or back to ainvoke
ToolCallDone(call, result) ==
    /\ events' = events \o <<StatusEvent(FriendlyName(call.name))>>
                        \o (IF call.name \in CartTools THEN <<CartUpdatedEvent>> ELSE <<>>)
    /\ current_messages' = Append(current_messages, ToolMessageFor(result, call))
    /\ tool_idx' = tool_idx + 1
    /\ pc' = IF tool_idx' > Len(response.tool_calls) THEN "ainvoke" ELSE "tool"

\* the tool of the next tool call is in TOOL_MAP and returns
ToolReturns ==
    /\ pc = "tool"
    /\ LET call == response.tool_calls[tool_idx] IN
        /\ call.name \in TOOL_MAP
        /\ cart_items' = InvokeTool(call, cart_items, body.user_id).cart
        /\ ToolCallDone(call, ToolResultText(call.name))
    /\ UNCHANGED <<full_response, tool_rounds, response, reply, storeVars, reqVars,
                   ctxVars, llmVars, cart_call, sessions>>

\* TOOL_MAP[name] of an unknown name raises KeyError
LookupFails(call) == call.name \notin TOOL_MAP

\* a registered tool may raise
ToolMayRaise(call) == call.name \in TOOL_MAP /\ env.failures < MaxToolFailures

\* env once the tool call has failed; a failing lookup was counted when requested
Failed(call, counted) ==
    [env EXCEPT !.failures = @ + counted, !.failed = @ \cup {call.id}]

ToolFailsUncaught ==
    /\ pc = "tool"
    /\ LET call == response.tool_calls[tool_idx] IN
        \/ LookupFails(call) /\ env' = Failed(call, 0)
        \/ ToolMayRaise(call) /\ env' = Failed(call, 1)
    /\ Except
    /\ UNCHANGED <<current_messages, tool_rounds, response, tool_idx, reply,
                   llm_calls, submitted, storeVars, reqVars, ctxVars, cartVars>>

\* a failing tool call that rolls back what the turn's earlier tools committed
ToolFailsRollsBack ==
    /\ pc = "tool"
    /\ LET call == response.tool_calls[tool_idx] IN
        /\ \/ LookupFails(call) /\ env' = Failed(call, 0)
           \/ ToolMayRaise(call) /\ env' = Failed(call, 1)
        /\ ToolCallDone(call, ToolErrorText(call.name))
    /\ cart_items' = <<>>
    /\ UNCHANGED <<full_response, tool_rounds, response, reply, llm_calls,
                   submitted, storeVars, reqVars, ctxVars, cart_call, sessions>>

\* TOOL_MAP[name] raises KeyError, or the tool raises: lines 116-118
ToolFails ==
    /\ pc = "tool"
    /\ LET call == response.tool_calls[tool_idx] IN
        /\ \/ LookupFails(call) /\ env' = Failed(call, 0)
           \/ ToolMayRaise(call) /\ env' = Failed(call, 1)
        /\ ToolCallDone(call, ToolErrorText(call.name))
    /\ UNCHANGED <<full_response, tool_rounds, response, reply, llm_calls,
                   submitted, storeVars, reqVars, ctxVars, cartVars>>

\* llm_with_tools.astream(current_messages) is called, line 134
AStream ==
    /\ pc = "astream"
    /\ Invoked("astream", current_messages)
    /\ pc' = "streaming"
    /\ UNCHANGED <<env, storeVars, reqVars, ctxVars, loopVars, outVars, cartVars>>

\* chunk.content of the chunks of a streamed response; a chunk that carries
\* (part of) a tool call has empty content
ChunkTokens == {<<"tok">>, <<>>}

StreamChunkRunsTool ==
    /\ pc = "streaming"
    /\ env.chunks < MaxChunks
    /\ env' = [env EXCEPT !.chunks = @ + 1]
    /\ \E token \in ChunkTokens :
        IF token # <<>>
        THEN /\ full_response' = full_response \o token
             /\ events' = Append(events, TokenEvent(token))
             /\ UNCHANGED current_messages
        ELSE /\ current_messages' =
                   Append(current_messages,
                          ToolMessage(ToolResultText("add_to_cart"), NoId, "add_to_cart"))
             /\ UNCHANGED <<full_response, events>>
    /\ UNCHANGED <<pc, tool_rounds, response, tool_idx, reply,
                   llm_calls, submitted, storeVars, reqVars, ctxVars, cartVars>>

\* one chunk arrives, lines 137-140
StreamChunk ==
    /\ pc = "streaming"
    /\ env.chunks < MaxChunks
    /\ env' = [env EXCEPT !.chunks = @ + 1]
    /\ \E token \in ChunkTokens :
        IF token # <<>>
        THEN /\ full_response' = full_response \o token
             /\ events' = Append(events, TokenEvent(token))
        ELSE UNCHANGED <<full_response, events>>
    /\ UNCHANGED <<pc, current_messages, tool_rounds, response, tool_idx, reply,
                   llm_calls, submitted, storeVars, reqVars, ctxVars, cartVars>>

StreamEndsContinue ==
    /\ pc = "streaming"
    /\ pc' = "ainvoke"
    /\ UNCHANGED <<storeVars, reqVars, ctxVars, loopVars, outVars, llmVars,
                   cartVars>>

\* the stream ends, line 142
StreamEnds ==
    /\ pc = "streaming"
    /\ pc' = "save_assistant"
    /\ UNCHANGED <<storeVars, reqVars, ctxVars, loopVars, outVars, llmVars,
                   cartVars>>

\* astream raises, at its call or between two chunks
StreamRaises ==
    /\ pc = "streaming"
    /\ env' = [env EXCEPT !.stream_raised = TRUE]
    /\ Except
    /\ UNCHANGED <<current_messages, tool_rounds, response, tool_idx, reply,
                   llm_calls, submitted, storeVars, reqVars, ctxVars, cartVars>>

\* lines 150-151: the assistant turn is saved and the done event is yielded
SaveAssistant ==
    /\ pc = "save_assistant"
    /\ messages_table' = save_message(messages_table, conversation_id, "assistant",
                                      full_response, now)
    /\ now' = now + 1
    /\ events' = Append(events, DoneEvent(conversation_id))
    /\ pc' = "closed"
    /\ UNCHANGED <<reply, reqVars, ctxVars, loopVars, llmVars, cartVars>>

\* the store fails in save_message of line 150: the generator raises
SaveAssistantRaises ==
    /\ pc = "save_assistant"
    /\ pc' = "broken"
    /\ UNCHANGED <<storeVars, reqVars, ctxVars, loopVars, outVars, llmVars,
                   cartVars>>

\* the caller abandons the stream: the response task is cancelled and the
\* generator is closed where it is suspended (an await or a yield of lines
\* 86-151); CancelledError is not an Exception, so the except branch of line
\* 144 does not run, and nothing after the loop runs either
CallerAbandons ==
    /\ pc \in {"ainvoke", "tool", "astream", "streaming", "save_assistant"}
    /\ pc' = "abandoned"
    /\ UNCHANGED <<storeVars, reqVars, ctxVars, loopVars, outVars, llmVars,
                   cartVars>>

----------------------------------------------------------------------------
(* api/chat.py: POST "" and agent/graph.py *)

\* chat, lines 180-184
chat ==
    /\ pc = "idle"
    /\ \E b \in Requests :
        /\ body' = b
        /\ conversation_id' = Or(b.conversation_id, uuid4)
    /\ endpoint' = "chat"
    /\ pc' = "save_user"
    /\ UNCHANGED <<storeVars, ctxVars, loopVars, outVars, llmVars, cartVars>>

\* agent.ainvoke({"messages": messages}): the graph starts at agent_node
StartGraph ==
    /\ pc = "built"
    /\ endpoint = "chat"
    /\ current_messages' = messages
    /\ pc' = "agent_node"
    /\ UNCHANGED <<full_response, tool_rounds, response, tool_idx, storeVars,
                   reqVars, ctxVars, outVars, llmVars, cartVars>>

\* should_continue without the test of the tool-call list
should_continueAnyAI(state_messages) ==
    LET last_message == state_messages[Len(state_messages)] IN
    IF last_message.type = "ai" THEN "tools" ELSE "end"

\* should_continue on the state's messages
should_continue(state_messages) ==
    LET last_message == state_messages[Len(state_messages)] IN
    IF last_message.type = "ai" /\ last_message.tool_calls # <<>>
    THEN "tools" ELSE "end"

\* agent_node returns {"messages": [response]}, then the conditional edge
AgentNodeReturns(resp) ==
    /\ Invoked("ainvoke", WithSystemPrompt(current_messages))
    /\ response' = resp
    /\ current_messages' = Append(current_messages, resp)
    /\ pc' = IF should_continue(current_messages') = "tools"
             THEN "tool_node" ELSE "save_reply"

\* agent_node: the model answers with tool calls
AgentNodeToolCalls ==
    /\ pc = "agent_node"
    /\ \E n \in 1..(MaxExtraCalls + 1) :
        \E calls \in CallLists(Len(llm_calls) + 1, n) :
            /\ RequestsTools(calls)
            /\ AgentNodeReturns(AIMessage(<<>>, calls))
    /\ UNCHANGED <<full_response, tool_rounds, tool_idx, storeVars, reqVars,
                   ctxVars, outVars, cartVars>>

\* agent_node: the model answers with text
AgentNodeText ==
    /\ pc = "agent_node"
    /\ \E c \in AnswerTexts : AgentNodeReturns(AIMessage(c, <<>>))
    /\ env' = [env EXCEPT !.kinds = Append(@, "text")]
    /\ UNCHANGED <<full_response, tool_rounds, tool_idx, storeVars, reqVars,
                   ctxVars, outVars, cartVars>>

\* agent_node: the model invocation raises, and so do agent.ainvoke and chat
AgentNodeRaises ==
    /\ pc = "agent_node"
    /\ Invoked("ainvoke", WithSystemPrompt(current_messages))
    /\ env' = [env EXCEPT !.kinds = Append(@, "raise")]
    /\ pc' = "raised"
    /\ UNCHANGED <<storeVars, reqVars, ctxVars, loopVars, outVars, cartVars>>

\* the ToolMessages tool_node builds for the calls of the last message
ToolNodeResults(calls) ==
    [i \in 1..Len(calls) |-> ToolMessageFor(ToolResultText(calls[i].name), calls[i])]

\* tool_node: every tool returns; {"messages": results} is appended
ToolNodeReturns ==
    /\ pc = "tool_node"
    /\ LET calls == current_messages[Len(current_messages)].tool_calls IN
        /\ \A i \in 1..Len(calls) : calls[i].name \in TOOL_MAP
        /\ cart_items' = RunTools(calls, 1, cart_items, body.user_id)
        /\ current_messages' = current_messages \o ToolNodeResults(calls)
    /\ pc' = "agent_node"
    /\ UNCHANGED <<full_response, tool_rounds, response, tool_idx, storeVars,
                   reqVars, ctxVars, outVars, llmVars, cart_call, sessions>>

\* tool_node: TOOL_MAP[name] or a tool raises; nothing catches it
ToolNodeRaises ==
    /\ pc = "tool_node"
    /\ LET calls == current_messages[Len(current_messages)].tool_calls IN
        \E i \in 1..Len(calls) :
            \/ LookupFails(calls[i]) /\ env' = Failed(calls[i], 0)
            \/ ToolMayRaise(calls[i]) /\ env' = Failed(calls[i], 1)
    /\ pc' = "raised"
    /\ UNCHANGED <<llm_calls, submitted, storeVars, reqVars, ctxVars, loopVars,
                   outVars, cartVars>>

\* chat, lines 199-202: the last message is saved and returned
SaveReply ==
    /\ pc = "save_reply"
    /\ LET ai_message == current_messages[Len(current_messages)] IN
        /\ messages_table' = save_message(messages_table, conversation_id,
                                          "assistant", ai_message.content, now)
        /\ reply' = ai_message.content
    /\ now' = now + 1
    /\ pc' = "closed"
    /\ UNCHANGED <<events, reqVars, ctxVars, loopVars, llmVars, cartVars>>

\* the store fails in save_message of line 201
SaveReplyRaises ==
    /\ pc = "save_reply"
    /\ pc' = "raised"
    /\ UNCHANGED <<storeVars, reqVars, ctxVars, loopVars, outVars, llmVars,
                   cartVars>>

----------------------------------------------------------------------------
(* The service: one request on a store that holds earlier turns *)

\* the log of conversation "c1" after k earlier turns
History(k) ==
    [i \in 1..k |->
        IF i % 2 = 1 THEN Row("c1", "user", <<"hi">>, i)
        ELSE Row("c1", "assistant", <<"big">>, i)]

\* the numbers of earlier turns: none, one exchange, three exchanges
PriorTurns == {0, 2, MIN_RECENT_MESSAGES}

Init ==
    /\ \E k \in PriorTurns :
        /\ messages_table = History(k)
        /\ now = k + 1
    /\ pc = "idle"
    /\ endpoint = "none"
    /\ body = NoRequest
    /\ conversation_id = None
    /\ db_messages = <<>>
    /\ messages = <<>>
    /\ summarizer_calls = <<>>
    /\ current_messages = <<>>
    /\ full_response = <<>>
    /\ tool_rounds = 0
    /\ response = NoResponse
    /\ tool_idx = 0
    /\ events = <<>>
    /\ reply = None
    /\ llm_calls = <<>>
    /\ submitted = <<>>
    /\ env = NoEnv
    /\ cart_items = <<>>
    /\ cart_call = NoCall
    /\ sessions = NoSessions

Next ==
    \/ chat_stream \/ chat
    \/ SaveUser \/ SaveUserRaises
    \/ LoadMessages \/ LoadMessagesRaises
    \/ BuildContext \/ SummarizeReturns \/ SummarizeRaises
    \/ StartGenerator
    \/ AInvokeToolCalls \/ AInvokeText \/ AInvokeRaises
    \/ ToolReturns \/ ToolFails
    \/ AStream \/ StreamChunk \/ StreamEnds \/ StreamRaises
    \/ SaveAssistant \/ SaveAssistantRaises
    \/ StartGraph
    \/ AgentNodeToolCalls \/ AgentNodeText \/ AgentNodeRaises
    \/ ToolNodeReturns \/ ToolNodeRaises
    \/ SaveReply \/ SaveReplyRaises

Spec == Init /\ [][Next]_vars

----------------------------------------------------------------------------
(* The streaming endpoint alone: one POST /stream on an empty store *)

InitStream ==
    /\ messages_table = <<>>
    /\ now = 1
    /\ pc = "idle"
    /\ endpoint = "none"
    /\ body = NoRequest
    /\ conversation_id = None
    /\ db_messages = <<>>
    /\ messages = <<>>
    /\ summarizer_calls = <<>>
    /\ current_messages = <<>>
    /\ full_response = <<>>
    /\ tool_rounds = 0
    /\ response = NoResponse
    /\ tool_idx = 0
    /\ events = <<>>
    /\ reply = None
    /\ llm_calls = <<>>
    /\ submitted = <<>>
    /\ \E names \in TurnNames : env = [NoEnv EXCEPT !.names = names]
    /\ cart_items = <<>>
    /\ cart_call = NoCall
    /\ sessions = NoSessions

NextStream ==
    \/ chat_stream
    \/ SaveUser \/ SaveUserRaises
    \/ LoadMessages \/ LoadMessagesRaises
    \/ BuildContext
    \/ StartGenerator
    \/ AInvokeToolCalls \/ AInvokeText \/ AInvokeRaises
    \/ ToolReturns \/ ToolFails
    \/ AStream \/ StreamChunk \/ StreamEnds \/ StreamRaises
    \/ SaveAssistant \/ SaveAssistantRaises
    \/ CallerAbandons

SpecStream == InitStream /\ [][NextStream]_vars

----------------------------------------------------------------------------
(* The turn log alone: save_message and load_messages called in any order *)

ConversationIds == {"c1", "c2"}

Roles == {"user", "assistant"}

InitLog ==
    /\ messages_table = <<>>
    /\ now = 1
    /\ pc = "store"
    /\ endpoint = "none"
    /\ body = NoRequest
    /\ conversation_id = None
    /\ db_messages = <<>>
    /\ messages = <<>>
    /\ summarizer_calls = <<>>
    /\ current_messages = <<>>
    /\ full_response = <<>>
    /\ tool_rounds = 0
    /\ response = NoResponse
    /\ tool_idx = 0
    /\ events = <<>>
    /\ reply = None
    /\ llm_calls = <<>>
    /\ submitted = <<>>
    /\ env = NoEnv
    /\ cart_items = <<>>
    /\ cart_call = NoCall
    /\ sessions = NoSessions

\* a call of save_message: the row gets the clock's reading as created_at
SaveMessage ==
    /\ pc \in {"store", "loaded"}
    /\ Len(messages_table) < MaxRows
    /\ \E cid \in ConversationIds, role \in Roles :
        messages_table' = save_message(messages_table, cid, role, <<"hi">>, now)
    /\ pc' = "store"
    /\ UNCHANGED <<now, reqVars, ctxVars, loopVars, outVars, llmVars, cartVars>>

\* the store's clock moves on between two calls
ClockAdvances ==
    /\ pc \in {"store", "loaded"}
    /\ now < MaxClock
    /\ now' = now + 1
    /\ pc' = "store"
    /\ UNCHANGED <<messages_table, reqVars, ctxVars, loopVars, outVars, llmVars,
                   cartVars>>

\* a call of load_messages for a conversation
LoadConversation ==
    /\ pc \in {"store", "loaded"}
    /\ \E cid \in ConversationIds :
        /\ conversation_id' = cid
        /\ db_messages' \in load_messages(messages_table, cid)
    /\ pc' = "loaded"
    /\ UNCHANGED <<endpoint, body, messages, summarizer_calls, storeVars, loopVars,
                   outVars, llmVars, cartVars>>

NextLog == SaveMessage \/ ClockAdvances \/ LoadConversation

SpecLog == InitLog /\ [][NextLog]_vars

----------------------------------------------------------------------------
(* The cart alone: the cart tools and the cart endpoints called one after
   another, for any user *)

InitCart ==
    /\ cart_items = <<>>
    /\ cart_call = NoCall
    /\ sessions = NoSessions
    /\ pc = "cart"
    /\ messages_table = <<>>
    /\ now = 1
    /\ endpoint = "none"
    /\ body = NoRequest
    /\ conversation_id = None
    /\ db_messages = <<>>
    /\ messages = <<>>
    /\ summarizer_calls = <<>>
    /\ current_messages = <<>>
    /\ full_response = <<>>
    /\ tool_rounds = 0
    /\ response = NoResponse
    /\ tool_idx = 0
    /\ events = <<>>
    /\ reply = None
    /\ llm_calls = <<>>
    /\ submitted = <<>>
    /\ env = NoEnv

\* the record of a cart operation and its outcome
Called(api, op, u, p, q, item, out) ==
    [api |-> api, op |-> op, user_id |-> u, product_id |-> p, quantity |-> q,
     item |-> item, text |-> out.text, items |-> out.items, raised |-> out.raised]

\* the operation is over: the table is as it left it
Completes(out, call) ==
    /\ pc = "cart"
    /\ \A i \in 1..Len(out.cart) : out.cart[i].quantity <= MaxQuantity
    /\ cart_items' = out.cart
    /\ cart_call' = call
    /\ UNCHANGED <<pc, sessions, storeVars, reqVars, ctxVars, loopVars, outVars,
                   llmVars>>

\* the tool add_to_cart is invoked with user_id_var set to u
ToolAddToCart ==
    \E u \in Users, p \in ProductIds, q \in Quantities :
        LET out == add_to_cart(cart_items, u, p, q) IN
        Completes(out, Called("tool", "add_to_cart", u, p, q, 0, out))

\* the tool remove_from_cart is invoked with user_id_var set to u
ToolRemoveFromCart ==
    \E u \in Users, p \in ProductIds :
        LET out == remove_from_cart(cart_items, u, p) IN
        Completes(out, Called("tool", "remove_from_cart", u, p, 0, 0, out))

\* the tool clear_cart is invoked with user_id_var set to u
ToolClearCart ==
    \E u \in Users :
        LET out == clear_cart(cart_items, u) IN
        Completes(out, Called("tool", "clear_cart", u, 0, 0, 0, out))

\* the tool get_current_cart is invoked with user_id_var set to u
ToolGetCurrentCart ==
    \E u \in Users :
        LET out == get_current_cart(cart_items, u) IN
        Completes(out, Called("tool", "get_current_cart", u, 0, 0, 0, out))

\* POST /cart
ApiAddToCart ==
    \E u \in Users, p \in ProductIds, q \in Quantities :
        LET out == api_add_to_cart(cart_items, u, p, q) IN
        Completes(out, Called("rest", "add_to_cart", u, p, q, 0, out))

\* DELETE /cart/{item_id}, for the id of a row or an id no row has
ApiRemoveFromCart ==
    \E item \in 1..(Len(cart_items) + 1) :
        LET out == api_remove_from_cart(cart_items, item) IN
        Completes(out, Called("rest", "remove_from_cart", None, 0, 0, item, out))

NextCart ==
    \/ ToolAddToCart \/ ToolRemoveFromCart \/ ToolClearCart \/ ToolGetCurrentCart
    \/ ApiAddToCart \/ ApiRemoveFromCart

SpecCart == InitCart /\ [][NextCart]_vars

----------------------------------------------------------------------------
(* The cart with any integer quantity: "quantity: int" of the tool and of
   CartItemAdd carries no lower limit, so callers can pass zero and negative
   numbers *)

\* the most rows the table holds
MaxLines == 2

\* the quantities callers ask for: a negative number, zero, a positive number
IntQuantities == {-1, 0, 1}

\* the operation is over; the table stays within the bounds
CompletesInt(out, call) ==
    /\ Len(out.cart) <= MaxLines
    /\ \A i \in 1..Len(out.cart) : out.cart[i].quantity >= -MaxQuantity
    /\ Completes(out, call)

\* the tool add_to_cart is invoked with any integer quantity
ToolAddToCartInt ==
    \E u \in Users, p \in ProductIds, q \in IntQuantities :
        LET out == add_to_cart(cart_items, u, p, q) IN
        CompletesInt(out, Called("tool", "add_to_cart", u, p, q, 0, out))

\* POST /cart with any integer quantity
ApiAddToCartInt ==
    \E u \in Users, p \in ProductIds, q \in IntQuantities :
        LET out == api_add_to_cart(cart_items, u, p, q) IN
        CompletesInt(out, Called("rest", "add_to_cart", u, p, q, 0, out))

NextInt ==
    \/ ToolAddToCartInt \/ ApiAddToCartInt
    \/ ToolRemoveFromCart \/ ToolClearCart \/ ApiRemoveFromCart

SpecInt == InitCart /\ [][NextInt]_vars

----------------------------------------------------------------------------
(* Two add_to_cart operations at the same time. Each request has its own
   store session (database.py get_db); "await db.execute(select ...)" and
   "await db.commit()" are two suspension points, so the statements of the
   two sessions interleave. *)

\* the tables the operations start from: no line, or a line of 1 for (u1, 1)
InitialCarts == {<<>>, <<CartItem("u1", 1, 1)>>}

InitSessions ==
    /\ cart_items \in InitialCarts
    /\ cart_call = NoCall
    /\ sessions = NoSessions
    /\ pc = "sessions"
    /\ messages_table = <<>>
    /\ now = 1
    /\ endpoint = "none"
    /\ body = NoRequest
    /\ conversation_id = None
    /\ db_messages = <<>>
    /\ messages = <<>>
    /\ summarizer_calls = <<>>
    /\ current_messages = <<>>
    /\ full_response = <<>>
    /\ tool_rounds = 0
    /\ response = NoResponse
    /\ tool_idx = 0
    /\ events = <<>>
    /\ reply = None
    /\ llm_calls = <<>>
    /\ submitted = <<>>
    /\ env = NoEnv

\* session s moved on; nothing but sessions and the table can change
SessionStep(s, rec) ==
    /\ pc = "sessions"
    /\ sessions' = [sessions EXCEPT ![s] = rec]
    /\ UNCHANGED <<pc, cart_call, storeVars, reqVars, ctxVars, loopVars, outVars,
                   llmVars>>

\* add_to_cart (tool or POST /cart) up to "cart_item = result.scalar_one_or_none()":
\* db.get(Product, product_id), then the select of the line of (user_id,
\* product_id); the session keeps the row it loaded and the quantity it read
AddToCartSelects(s) ==
    /\ sessions[s].pc = "idle"
    /\ \E api \in {"tool", "rest"}, u \in Users, p \in ProductIds, q \in Quantities :
        LET S == Select(cart_items, u, p)
            req == [NoSession EXCEPT !.api = api, !.user_id = u,
                                     !.product_id = p, !.quantity = q] IN
        /\ SessionStep(s,
             IF p \notin Products
             THEN [req EXCEPT !.pc = "done",
                              !.text = IF api = "tool"
                                       THEN add_to_cart(cart_items, u, p, q).text
                                       ELSE api_add_to_cart(cart_items, u, p, q).text,
                              !.raised = (api = "rest")]
             ELSE IF MultipleResultsFound(S)
             THEN [req EXCEPT !.pc = "done", !.text = <<"MultipleResultsFound">>,
                              !.raised = TRUE]
             ELSE IF S = {}
             THEN [req EXCEPT !.pc = "selected"]
             ELSE LET i == CHOOSE i \in S : TRUE IN
                  [req EXCEPT !.pc = "selected", !.found = i,
                              !.seen = cart_items[i].quantity])
        /\ UNCHANGED cart_items

\* the rest of add_to_cart: "cart_item.quantity += quantity" on the loaded
\* row, or db.add(CartItem(...)), then "await db.commit()", which writes the
\* quantity the session computed or inserts the new row
AddToCartCommits(s) ==
    /\ sessions[s].pc = "selected"
    /\ LET r == sessions[s] IN
        /\ cart_items' =
              IF r.found = 0
              THEN Append(cart_items, CartItem(r.user_id, r.product_id, r.quantity))
              ELSE [cart_items EXCEPT ![r.found].quantity = r.seen + r.quantity]
        /\ SessionStep(s,
             [r EXCEPT !.pc = "done",
                       !.text = IF r.api = "tool"
                                THEN <<"Added ", "quantity", "x ", "product.name",
                                       " to your cart.">>
                                ELSE <<"201">>])

NextSessions ==
    \E s \in Sessions : AddToCartSelects(s) \/ AddToCartCommits(s)

SpecSessions == InitSessions /\ [][NextSessions]_vars

----------------------------------------------------------------------------
(* The conditional edge alone: should_continue applied to every bounded
   graph state *)

\* the longest state["messages"] the edge is applied to
MaxStateLen == 2

\* the messages a graph state is made of
StateMessageSet ==
    {HumanMessage(<<"hi">>), SystemMessage(SYSTEM_PROMPT),
     ToolMessage(ToolResultText("add_to_cart"), CallId(1, 1), "add_to_cart"),
     AIMessage(<<"answer">>, <<>>), AIMessage(<<>>, <<>>),
     AIMessage(<<>>, <<[name |-> "add_to_cart", id |-> CallId(1, 1),
                        args |-> ToolArgs]>>),
     AIMessage(<<"answer">>, <<[name |-> "add_to_cart", id |-> CallId(1, 1),
                                args |-> ToolArgs]>>),
     AIMessage(<<>>, <<[name |-> "add_to_cart", id |-> CallId(1, 1),
                        args |-> ToolArgs],
                       [name |-> "get_current_cart", id |-> CallId(1, 2),
                        args |-> ToolArgs]>>)}

InitEdge ==
    /\ current_messages \in SeqsUpTo(StateMessageSet, MaxStateLen)
    /\ pc = "agent"
    /\ cart_items = <<>>
    /\ cart_call = NoCall
    /\ sessions = NoSessions
    /\ messages_table = <<>>
    /\ now = 1
    /\ endpoint = "none"
    /\ body = NoRequest
    /\ conversation_id = None
    /\ db_messages = <<>>
    /\ messages = <<>>
    /\ summarizer_calls = <<>>
    /\ full_response = <<>>
    /\ tool_rounds = 0
    /\ response = NoResponse
    /\ tool_idx = 0
    /\ events = <<>>
    /\ reply = None
    /\ llm_calls = <<>>
    /\ submitted = <<>>
    /\ env = NoEnv

\* the conditional edge after the agent node: the graph goes where
\* should_continue says; state["messages"][-1] of an empty list raises IndexError
ConditionalEdge ==
    /\ pc = "agent"
    /\ pc' = IF current_messages = <<>> THEN "raised"
             ELSE should_continue(current_messages)
    /\ UNCHANGED <<storeVars, reqVars, ctxVars, loopVars, outVars, llmVars,
                   cartVars>>

NextEdge == ConditionalEdge

SpecEdge == InitEdge /\ [][NextEdge]_vars

----------------------------------------------------------------------------
(* A conversation shared by two requests: the request that is followed, up to
   its first model invocation, and another request of POST /stream for the
   same conversation identifier, whose save of its user turn (chat.py line
   62) falls at any point of this request *)

\* body.message of the other request
OtherMessage == <<"other">>

\* the other request executes "await save_message(db, conversation_id, "user",
\* body.message)" for the conversation identifier this request was given
OtherRequestSavesUser ==
    /\ pc \in {"save_user", "load_messages", "build_context", "summarize", "built",
              "ainvoke"}
    /\ body.conversation_id = conversation_id
    /\ \A i \in 1..Len(messages_table) : messages_table[i].content # OtherMessage
    /\ messages_table' = save_message(messages_table, conversation_id, "user",
                                      OtherMessage, now)
    /\ now' = now + 1
    /\ UNCHANGED <<pc, reqVars, ctxVars, loopVars, outVars, llmVars, cartVars>>

NextShared ==
    \/ chat_stream
    \/ SaveUser \/ SaveUserRaises
    \/ OtherRequestSavesUser
    \/ LoadMessages \/ LoadMessagesRaises
    \/ BuildContext \/ SummarizeReturns \/ SummarizeRaises
    \/ StartGenerator
    \/ AInvokeText \/ AInvokeRaises

SpecShared == Init /\ [][NextShared]_vars

----------------------------------------------------------------------------
(* Properties of build_context, checked under SpecCtx *)

\* the summed token count of the contents of the rows given to build_context
HistoryTokens ==
    SumOver([i \in 1..Len(db_messages) |-> count_tokens(db_messages[i].content)], 1)

\* messages[off + i] is row from + i of db_messages, as loaded, for i in 1..n
Verbatim(off, from, n) ==
    \A i \in 1..n :
        /\ messages[off + i].content = db_messages[from + i].content
        /\ messages[off + i].type =
              (IF db_messages[from + i].role = "user" THEN "human" ELSE "ai")
        /\ messages[off + i].tool_calls = <<>>

\* C1: for a history whose summed token count is at most MAX_HISTORY_TOKENS
\* (the empty one too) build_context returns without calling the summarizer,
\* and what it returns is the history: same length, order and contents, and
\* no synthesized system turn.
C1_UnderBudgetVerbatim ==
    (HistoryTokens <= MAX_HISTORY_TOKENS /\ pc # "build_context") =>
        /\ pc = "built"
        /\ summarizer_calls = <<>>
        /\ Len(messages) = Len(db_messages)
        /\ Verbatim(0, 0, Len(db_messages))

\* a history of more than MIN_RECENT_MESSAGES turns, exactly at the budget,
\* has been returned
C1_Witness ==
    /\ pc = "built"
    /\ HistoryTokens = MAX_HISTORY_TOKENS
    /\ Len(db_messages) > MIN_RECENT_MESSAGES
    /\ Len(messages) = Len(db_messages)

\* C2: for a history over the budget with more than MIN_RECENT_MESSAGES
\* turns, the summarizer is called exactly once, on the first n - R turns,
\* and build_context returns R + 1 turns: a system turn whose content is
\* "Summary of earlier conversation:\n" followed by the digest, then the last
\* R turns of the history in order and unchanged.
C2_OverBudgetSummarized ==
    LET n == Len(db_messages)
        R == MIN_RECENT_MESSAGES IN
    (HistoryTokens > MAX_HISTORY_TOKENS /\ n > R /\ pc # "build_context") =>
        /\ Len(summarizer_calls) = 1
        /\ summarizer_calls[1].messages =
              SubSeq(messages_to_langchain(db_messages), 1, n - R)
        /\ pc = "built" =>
              /\ Len(messages) = R + 1
              /\ messages[1].type = "system"
              /\ OccursAt(messages[1].content, SUMMARY_PREFIX, 1)
              /\ messages[1].content = SUMMARY_PREFIX \o summarizer_calls[1].result
              /\ Verbatim(1, n - R, R)

\* an over-budget history of R + 1 turns has been compressed to R + 1 turns
\* with a non-empty digest
C2_Witness ==
    /\ pc = "built"
    /\ HistoryTokens > MAX_HISTORY_TOKENS
    /\ Len(db_messages) = MIN_RECENT_MESSAGES + 1
    /\ Len(messages) = MIN_RECENT_MESSAGES + 1
    /\ messages[1].content = SUMMARY_PREFIX \o <<"digest">>

\* C3: for a history of at most MIN_RECENT_MESSAGES turns, whatever its
\* token count, build_context never calls the summarizer and returns all the
\* turns unchanged.
C3_FewTurnsNeverSummarized ==
    (Len(db_messages) <= MIN_RECENT_MESSAGES /\ pc # "build_context") =>
        /\ pc = "built"
        /\ summarizer_calls = <<>>
        /\ Len(messages) = Len(db_messages)
        /\ Verbatim(0, 0, Len(db_messages))

\* a history of one turn that alone exceeds the budget has been returned
C3_Witness ==
    /\ pc = "built"
    /\ Len(db_messages) = 1
    /\ HistoryTokens > MAX_HISTORY_TOKENS
    /\ Len(messages) = 1

\* the summarizer was called and the call gave no digest: it raised
SummarizerFailed ==
    /\ summarizer_calls # <<>>
    /\ summarizer_calls[Len(summarizer_calls)].result = None
    /\ pc # "summarize"

\* C11: when the summarizer call fails, build_context raises to its caller: it
\* returns no context window, so never one whose summary turn is empty or a
\* placeholder; a window with a summary turn exists only for a call that
\* returned, and its summary is the digest that call returned.
C11_SummarizerFailurePropagates ==
    /\ SummarizerFailed =>
          /\ pc = "raised"
          /\ messages = <<>>
    /\ (pc = "built" /\ HasSystemMessage(messages)) =>
          /\ Len(summarizer_calls) = 1
          /\ summarizer_calls[1].result \in Digests
          /\ messages[1].content = SUMMARY_PREFIX \o summarizer_calls[1].result

\* the summarizer was called on the older turns of an over-budget history and
\* raised: build_context has raised and there is no window
C11_Witness ==
    /\ pc = "raised"
    /\ Len(summarizer_calls) = 1
    /\ summarizer_calls[1].messages # <<>>
    /\ summarizer_calls[1].result = None
    /\ messages = <<>>

----------------------------------------------------------------------------
(* Properties of the dispatch loops, checked under Spec *)

\* the events of a type yielded so far
EventsOf(type) == {i \in 1..Len(events) : events[i].type = type}

\* the request has left the loop of event_generator
AfterLoop == endpoint = "stream" /\ pc \in {"save_assistant", "closed", "broken"}

\* the last row of the messages table is the assistant turn with content c
LastRowIsAssistant(c) ==
    /\ messages_table # <<>>
    /\ messages_table[Len(messages_table)].role = "assistant"
    /\ messages_table[Len(messages_table)].conversation_id = conversation_id
    /\ messages_table[Len(messages_table)].content = c

\* C4: the list given to every model invocation is the system directive
\* SYSTEM_PROMPT, then the context window, then the tool exchange appended so
\* far, also when the window starts with a summary turn.
C4_SystemDirectiveThenWindow ==
    llm_calls # <<>> =>
        /\ submitted[1] = SystemMessage(SYSTEM_PROMPT)
        /\ Len(submitted) >= Len(messages) + 1
        /\ SubSeq(submitted, 2, Len(messages) + 1) = messages
        /\ \A i \in (Len(messages) + 2)..Len(submitted) :
              submitted[i].type \in {"ai", "tool"}

\* the first ainvoke of the streamed turn returned a response without tool calls
FirstResponseIsText ==
    endpoint = "stream" /\ env.kinds # <<>> /\ env.kinds[1] = "text"

AlwaysToolCalls ==
    /\ endpoint = "stream"
    /\ env.kinds # <<>>
    /\ \A i \in 1..Len(env.kinds) : env.kinds[i] = "tools"

\* C6: when every response carries tool calls, the loop is left after exactly
\* MAX_TOOL_ROUNDS + 1 model invocations; the non-empty fallback text is the
\* final answer, yielded as the only token event, and it is the content of
\* the assistant turn that is saved.
C6_RoundCeiling ==
    AlwaysToolCalls =>
        /\ Len(llm_calls) <= MAX_TOOL_ROUNDS + 1
        /\ Len(llm_calls) = Len(env.kinds)
        /\ AfterLoop <=> Len(llm_calls) = MAX_TOOL_ROUNDS + 1
        /\ AfterLoop =>
              /\ FALLBACK_TEXT # <<>>
              /\ full_response = FALLBACK_TEXT
              /\ \A i \in EventsOf("token") : events[i].content = FALLBACK_TEXT
              /\ Cardinality(EventsOf("token")) = 1
        /\ pc = "closed" =>
              /\ LastRowIsAssistant(FALLBACK_TEXT)
              /\ events[Len(events)] = DoneEvent(conversation_id)
              /\ events[Len(events) - 1] = TokenEvent(FALLBACK_TEXT)

\* a turn of six invocations, all answered with tool calls, is done
C6_Witness ==
    /\ AlwaysToolCalls
    /\ pc = "closed"
    /\ Len(llm_calls) = MAX_TOOL_ROUNDS + 1
    /\ LastRowIsAssistant(FALLBACK_TEXT)

\* in msgs, position p holds the (p - q)-th result of the request at q
AnswersRequestAt(msgs, p, q) ==
    /\ msgs[q].type = "ai"
    /\ Len(msgs[q].tool_calls) >= p - q
    /\ \A j \in (q + 1)..p : msgs[j].type = "tool"
    /\ msgs[p].tool_call_id = msgs[q].tool_calls[p - q].id
    /\ msgs[p].name = msgs[q].tool_calls[p - q].name

\* every tool result of msgs follows its request, in the order of the calls
ResultsFollowRequests(msgs) ==
    \A p \in 1..Len(msgs) :
        msgs[p].type = "tool" => \E q \in 1..(p - 1) : AnswersRequestAt(msgs, p, q)

\* every request of msgs with N calls is directly followed by N results
RequestsAnswered(msgs) ==
    \A q \in 1..Len(msgs) :
        (msgs[q].type = "ai" /\ msgs[q].tool_calls # <<>>) =>
            LET N == Len(msgs[q].tool_calls) IN
            /\ q + N <= Len(msgs)
            /\ \A j \in (q + 1)..(q + N) : AnswersRequestAt(msgs, j, q)
            /\ q + N < Len(msgs) => msgs[q + N + 1].type # "tool"

\* C7: a tool result is never in the message list without the assistant
\* request that precedes its batch, and it is tagged with the id and name of
\* the call at its position; once a batch of N calls is executed, the request
\* is directly followed by exactly N results in the order of the calls (so in
\* every list given to the model).
C7_ResultsFollowRequest ==
    /\ ResultsFollowRequests(current_messages)
    /\ pc \in {"ainvoke", "agent_node", "astream", "streaming", "save_assistant",
               "closed", "broken"}
          => RequestsAnswered(current_messages)
    /\ RequestsAnswered(submitted)
    /\ pc = "tool" =>
          /\ Len(current_messages) >= tool_idx
          /\ current_messages[Len(current_messages) - tool_idx + 1] = response

\* a request with two calls of different names has its two results after it
\* and was given to the model
C7_Witness ==
    \E q \in 1..Len(submitted) :
        /\ submitted[q].type = "ai"
        /\ Len(submitted[q].tool_calls) = 2
        /\ submitted[q].tool_calls[1].name # submitted[q].tool_calls[2].name
        /\ q + 2 = Len(submitted)
        /\ submitted[q + 2].tool_call_id = submitted[q].tool_calls[2].id

\* the tool results of the streamed turn carry the fixed error text exactly
\* for the calls that failed
ErrorTextForFailedCalls ==
    \A p \in 1..Len(current_messages) :
        current_messages[p].type = "tool" =>
            current_messages[p].content =
                (IF current_messages[p].tool_call_id \in env.failed
                 THEN ToolErrorText(current_messages[p].name)
                 ELSE ToolResultText(current_messages[p].name))

\* C8: in the streaming loop a step that executes a tool call, failing or
\* not, appends one tool result for that call and goes on to the next call of
\* the batch or, after the last, to the next model invocation; the result of a
\* call that failed (unknown name or raising tool) is the fixed error text.
C8_ToolFailureCaught ==
    [][(endpoint = "stream" /\ pc = "tool") =>
        LET call == response.tool_calls[tool_idx] IN
        /\ Len(current_messages') = Len(current_messages) + 1
        /\ current_messages'[Len(current_messages')].type = "tool"
        /\ current_messages'[Len(current_messages')].tool_call_id = call.id
        /\ LookupFails(call) => call.id \in env'.failed
        /\ ErrorTextForFailedCalls'
        /\ pc' = IF tool_idx < Len(response.tool_calls) THEN "tool" ELSE "ainvoke"
        /\ full_response' = full_response
        /\ EventsOf("token")' = EventsOf("token")]_vars

\* the first call of a batch failed, its result is the error text, the second
\* call was executed and the model was invoked again
C8_Witness ==
    /\ endpoint = "stream"
    /\ \E p \in 1..(Len(submitted) - 1) :
        /\ submitted[p].type = "tool"
        /\ submitted[p].tool_call_id \in env.failed
        /\ submitted[p].content = ToolErrorText(submitted[p].name)
        /\ submitted[p + 1].type = "tool"
        /\ submitted[p + 1].tool_call_id \notin env.failed

\* C9: a stream request whose message has more than MAX_MESSAGE_LENGTH
\* characters is answered with the rejection text as one token event and then
\* one done event; nothing is saved and no model, summarizer or tool is
\* called. A message of exactly MAX_MESSAGE_LENGTH characters is not rejected.
C9_TooLongRejected ==
    endpoint = "stream" =>
        /\ len(body.message) > MAX_MESSAGE_LENGTH =>
              /\ pc = "closed"
              /\ events = <<TokenEvent(REJECT_TEXT),
                            DoneEvent(Or(body.conversation_id, ""))>>
              /\ \E k \in PriorTurns : messages_table = History(k)
              /\ llm_calls = <<>>
              /\ summarizer_calls = <<>>
              /\ current_messages = <<>>
              /\ env = NoEnv
        /\ len(body.message) <= MAX_MESSAGE_LENGTH =>
              /\ \A i \in 1..Len(events) : events[i].content # REJECT_TEXT
              /\ pc \notin {"save_user", "raised"} =>
                    \E i \in 1..Len(messages_table) :
                        messages_table[i] =
                            Row(conversation_id, "user", body.message, i)

\* a message of 2001 characters has been rejected
C9_Witness ==
    /\ endpoint = "stream"
    /\ len(body.message) = MAX_MESSAGE_LENGTH + 1
    /\ pc = "closed"
    /\ Len(events) = 2

\* a model invocation of the streamed turn raised: ainvoke or astream
ModelInvocationFailed ==
    /\ endpoint = "stream"
    /\ \/ env.stream_raised
       \/ env.kinds # <<>> /\ env.kinds[Len(env.kinds)] = "raise"

\* C12: when ainvoke or astream raises in the streaming loop, the exception is
\* caught: the loop is left, the canned apology is yielded as a token event
\* (the last one, after an empty status event), the user turn saved before the
\* loop is still in the log, and once the turn is closed the only other row
\* it added is the assistant turn with the canned text, and the done event is
\* the last event.
C12_ModelFailureCaught ==
    ModelInvocationFailed =>
        /\ pc \in {"save_assistant", "closed", "broken"}
        /\ full_response = ERROR_TEXT
        /\ \E t \in EventsOf("token") :
              /\ events[t] = TokenEvent(ERROR_TEXT)
              /\ events[t - 1] = StatusEvent(<<>>)
              /\ \A i \in (t + 1)..Len(events) : events[i].type = "done"
        /\ \E i \in 1..Len(messages_table) :
              messages_table[i] = Row(conversation_id, "user", body.message, i)
        /\ pc # "closed" =>
              /\ EventsOf("done") = {}
              /\ messages_table[Len(messages_table)] =
                    Row(conversation_id, "user", body.message, Len(messages_table))
        /\ pc = "closed" =>
              /\ LastRowIsAssistant(ERROR_TEXT)
              /\ messages_table[Len(messages_table) - 1] =
                    Row(conversation_id, "user", body.message, Len(messages_table) - 1)
              /\ EventsOf("done") = {Len(events)}
              /\ events[Len(events)] = DoneEvent(conversation_id)

\* after a round of tools the second ainvoke raised; the turn is closed with
\* the canned text saved as the assistant turn
C12_Witness ==
    /\ ModelInvocationFailed
    /\ env.kinds = <<"tools", "raise">>
    /\ pc = "closed"
    /\ LastRowIsAssistant(ERROR_TEXT)
    /\ events[Len(events)] = DoneEvent(conversation_id)

\* the concatenation of the contents of the token events of evs from i on that
\* were yielded for chunks of the streamed answer
RECURSIVE StreamedText(_, _)
StreamedText(evs, i) ==
    IF i > Len(evs) THEN <<>>
    ELSE (IF evs[i].type = "token" /\ evs[i].content \in ChunkTokens
          THEN evs[i].content ELSE <<>>) \o StreamedText(evs, i + 1)

\* C13: when astream raises after answer text was accumulated, the apology is
\* yielded and the assistant turn that is saved still contains the text
\* accumulated (and already yielded as tokens) before the failure.
C13_PartialAnswerPersisted ==
    (endpoint = "stream" /\ env.stream_raised /\ StreamedText(events, 1) # <<>>
        /\ pc = "closed") =>
        /\ \E t \in EventsOf("token") : events[t] = TokenEvent(ERROR_TEXT)
        /\ messages_table[Len(messages_table)].role = "assistant"
        /\ \E p \in 1..Len(messages_table[Len(messages_table)].content) :
              OccursAt(messages_table[Len(messages_table)].content,
                       StreamedText(events, 1), p)

\* the stream request is over: the response is complete or an exception ended it
StreamRequestOver == endpoint = "stream" /\ pc \in {"closed", "raised", "broken"}

\* C14: a stream request yields at most one done event, and once it is over
\* it has yielded exactly one, as the last event, carrying the conversation id
\* of the request: the one supplied, or the generated one when none was
\* supplied.
C14_ExactlyOneDone ==
    endpoint = "stream" =>
        /\ Cardinality(EventsOf("done")) <= 1
        /\ StreamRequestOver =>
              /\ EventsOf("done") = {Len(events)}
              /\ events[Len(events)].conversation_id =
                    (IF body.conversation_id # None THEN body.conversation_id
                     ELSE uuid4)

\* C10: whatever collaborator fails during a stream request, the caller gets
\* a final answer and then a done event, never a raw exception.
C10_NeverRawException ==
    endpoint = "stream" =>
        /\ pc \notin {"raised", "broken"}
        /\ pc = "closed" =>
              /\ EventsOf("token") # {}
              /\ events[Len(events)].type = "done"

----------------------------------------------------------------------------
(* Properties of the streaming endpoint, checked under SpecStream *)

\* the number of elements of a sequence of events that are cart_updated events
CartUpdatedIn(evs) == Cardinality({i \in 1..Len(evs) : evs[i].type = "cart_updated"})

\* the tool results of msgs whose tool is one of the three that change the cart
CartToolResults(msgs) ==
    {p \in 1..Len(msgs) :
        /\ msgs[p].type = "tool"
        /\ msgs[p].name \in {"add_to_cart", "remove_from_cart", "clear_cart"}}

\* C15: events are only appended; the step that executes a tool call of
\* add_to_cart, remove_from_cart or clear_cart yields exactly one cart_updated
\* event, as the last event of the step, in the step that appends the call's
\* tool result and so before the next model invocation; the step that executes
\* any other tool call, and every step that executes no tool call, yields no
\* cart_updated event. So there are as many cart_updated events as executed
\* calls of those three tools.
C15_CartChangedPerCartTool ==
    [][LET yielded == SubSeq(events', Len(events) + 1, Len(events')) IN
       /\ Len(events') >= Len(events)
       /\ SubSeq(events', 1, Len(events)) = events
       /\ IF pc = "tool" /\ pc' # "abandoned"
          THEN LET call == response.tool_calls[tool_idx] IN
               /\ llm_calls' = llm_calls
               /\ current_messages'[Len(current_messages')].tool_call_id = call.id
               /\ IF call.name \in {"add_to_cart", "remove_from_cart", "clear_cart"}
                  THEN /\ CartUpdatedIn(yielded) = 1
                       /\ yielded[Len(yielded)] = CartUpdatedEvent
                  ELSE CartUpdatedIn(yielded) = 0
          ELSE CartUpdatedIn(yielded) = 0
       /\ CartUpdatedIn(events') = Cardinality(CartToolResults(current_messages'))
      ]_vars

\* a batch of an add_to_cart call and a call of another tool was executed and
\* the turn is closed: one cart_updated event was yielded, before the result
\* of the other call
C15_Witness ==
    /\ pc = "closed"
    /\ Len(llm_calls) = 3
    /\ \E p \in 1..(Len(current_messages) - 1) :
        /\ current_messages[p].type = "tool"
        /\ current_messages[p].name = "add_to_cart"
        /\ current_messages[p].tool_call_id \notin env.failed
        /\ current_messages[p + 1].type = "tool"
        /\ current_messages[p + 1].name = "lookup_weather"
    /\ CartUpdatedIn(events) = 1
    /\ \E i \in 1..(Len(events) - 1) :
        /\ events[i] = CartUpdatedEvent
        /\ events[i + 1] = StatusEvent(FriendlyName("lookup_weather"))

\* the first token of the answer has been yielded
AnswerStarted == EventsOf("token") # {}

\* the tool results in the message list of the turn
ToolResults == {p \in 1..Len(current_messages) : current_messages[p].type = "tool"}

\* C16: from the first token event of a turn on, no step executes a tool or
\* appends to the message list, the model is not invoked again and no
\* tool-status or cart_updated event is yielded, whatever chunks the stream
\* delivers; the turn only streams, is saved and closes, or is abandoned by
\* the caller.
C16_NoToolsAfterFirstToken ==
    [][AnswerStarted =>
        /\ current_messages' = current_messages
        /\ ToolResults' = ToolResults
        /\ env'.failed = env.failed
        /\ tool_idx' = tool_idx
        /\ tool_rounds' = tool_rounds
        /\ llm_calls' = llm_calls
        /\ pc' \in {"streaming", "save_assistant", "closed", "broken", "abandoned"}
        /\ CartUpdatedIn(events') = CartUpdatedIn(events)
        /\ \A i \in (Len(events) + 1)..Len(events') :
              events'[i].type \in {"token", "done"} \/ events'[i] = StatusEvent(<<>>)
      ]_vars

\* after a round of tools the answer was streamed as a token, then a chunk
\* without content (one that carries a tool call), and the turn is closed
C16_Witness ==
    /\ pc = "closed"
    /\ llm_calls = <<"ainvoke", "ainvoke", "astream">>
    /\ env.chunks = 2
    /\ full_response = <<"tok">>
    /\ events[Len(events) - 1] = TokenEvent(<<"tok">>)
    /\ Cardinality(ToolResults) = 1

----------------------------------------------------------------------------
(* Properties of the turn log, checked under SpecLog *)

\* C17: what load_messages returns is in ascending order of created_at, and it
\* is the sequence of the save_message calls for the conversation: turns with
\* equal created_at come in the order they were inserted.
C17_ReadBackInInsertionOrder ==
    pc = "loaded" =>
        /\ OrderedByCreatedAt(db_messages)
        /\ db_messages = RowsOf(messages_table, conversation_id)

\* the number of times a row occurs in a sequence of rows
Occurrences(rows, r) == Cardinality({i \in 1..Len(rows) : rows[i] = r})

\* the rows of the table saved under cid, as a sequence in insertion order
SavedUnder(table, cid) ==
    LET RECURSIVE Keep(_)
        Keep(i) ==
            IF i > Len(table) THEN <<>>
            ELSE (IF table[i].conversation_id = cid THEN <<table[i]>> ELSE <<>>)
                 \o Keep(i + 1)
    IN Keep(1)

\* C18: what load_messages(c) returns holds the rows saved under c, each as
\* often as it was saved, and no row saved under another identifier; and a
\* save_message to one conversation appends one row to that conversation's
\* log and leaves the log of every other conversation as it was.
C18_ConversationsIsolated ==
    [][/\ pc' = "loaded" =>
            LET saved == SavedUnder(messages_table', conversation_id') IN
            /\ Len(db_messages') = Len(saved)
            /\ \A i \in 1..Len(db_messages') :
                  /\ db_messages'[i].conversation_id = conversation_id'
                  /\ Occurrences(db_messages', db_messages'[i]) =
                        Occurrences(saved, db_messages'[i])
       /\ messages_table' # messages_table =>
            LET row == messages_table'[Len(messages_table')] IN
            /\ messages_table' = Append(messages_table, row)
            /\ \A c \in ConversationIds :
                  SavedUnder(messages_table', c) =
                      (IF c = row.conversation_id
                       THEN Append(SavedUnder(messages_table, c), row)
                       ELSE SavedUnder(messages_table, c))
      ]_vars

\* two turns were saved under "c1" and one under "c2" between them;
\* load_messages("c1") has returned the two
C18_Witness ==
    /\ pc = "loaded"
    /\ conversation_id = "c1"
    /\ Len(messages_table) = 3
    /\ messages_table[1].conversation_id = "c1"
    /\ messages_table[2].conversation_id = "c2"
    /\ messages_table[3].conversation_id = "c1"
    /\ Len(db_messages) = 2

----------------------------------------------------------------------------
(* Properties of the cart, checked under SpecCart *)

\* the rows of a cart table that are lines of product p for user u
LinesFor(cart, u, p) ==
    {i \in 1..Len(cart) : cart[i].user_id = u /\ cart[i].product_id = p}

\* the summed quantity of the lines of product p for user u
QuantityOf(cart, u, p) ==
    LET RECURSIVE Sum(_)
        Sum(i) ==
            IF i > Len(cart) THEN 0
            ELSE (IF i \in LinesFor(cart, u, p) THEN cart[i].quantity ELSE 0)
                 + Sum(i + 1)
    IN Sum(1)

\* C19: after every operation the table holds at most one line for each
\* (user, product); and an add (tool or endpoint) of quantity q of a catalog
\* product leaves exactly one line for the pair, whose quantity is q more than
\* the pair's quantity before (0 when it had no line), and adds no row when
\* the pair had a line.
C19_OneLinePerUserProduct ==
    [][/\ \A u \in Users, p \in ProductIds :
              Cardinality(LinesFor(cart_items', u, p)) <= 1
       /\ (cart_call'.op = "add_to_cart" /\ cart_call'.product_id \in Products) =>
            LET u == cart_call'.user_id
                p == cart_call'.product_id IN
            /\ ~cart_call'.raised
            /\ Cardinality(LinesFor(cart_items', u, p)) = 1
            /\ QuantityOf(cart_items', u, p) =
                  QuantityOf(cart_items, u, p) + cart_call'.quantity
            /\ Len(cart_items') =
                  Len(cart_items) + (IF LinesFor(cart_items, u, p) = {} THEN 1 ELSE 0)
      ]_vars

\* user u1 added 1 of product 1 to a line that held 1: the line holds 2, and
\* the table holds lines of other pairs too
C19_Witness ==
    /\ cart_call.op = "add_to_cart"
    /\ cart_call.user_id = "u1"
    /\ cart_call.product_id = 1
    /\ cart_call.quantity = 1
    /\ Cardinality(LinesFor(cart_items, "u1", 1)) = 1
    /\ QuantityOf(cart_items, "u1", 1) = 2
    /\ Len(cart_items) = 3

\* the rows of a cart table that are not lines of user u, in order
LinesOfOthers(cart, u) ==
    LET RECURSIVE Keep(_)
        Keep(i) ==
            IF i > Len(cart) THEN <<>>
            ELSE (IF cart[i].user_id # u THEN <<cart[i]>> ELSE <<>>) \o Keep(i + 1)
    IN Keep(1)

\* C20: a cart tool invoked for user u leaves the lines of every other user
\* as they were, changes at most the lines of u that its arguments name, and
\* what get_current_cart lists is exactly u's lines.
C20_CartToolsScopedToUser ==
    [][cart_call'.api = "tool" =>
        LET u == cart_call'.user_id
            p == cart_call'.product_id IN
        /\ LinesOfOthers(cart_items', u) = LinesOfOthers(cart_items, u)
        /\ cart_call'.op \in {"add_to_cart", "remove_from_cart"} =>
              \A r \in ProductIds \ {p} :
                  QuantityOf(cart_items', u, r) = QuantityOf(cart_items, u, r)
        /\ cart_call'.op = "clear_cart" => LinesOfOthers(cart_items', u) = cart_items'
        /\ cart_call'.op = "get_current_cart" =>
              /\ cart_items' = cart_items
              /\ \A i \in 1..Len(cart_call'.items) : cart_call'.items[i].user_id = u
              /\ Len(cart_call'.items) + Len(LinesOfOthers(cart_items, u)) =
                    Len(cart_items)
      ]_vars

\* both users held product 1 and u1 removed it: u2's line is still there
C20_Witness ==
    /\ cart_call.api = "tool"
    /\ cart_call.op = "remove_from_cart"
    /\ cart_call.user_id = "u1"
    /\ cart_call.product_id = 1
    /\ cart_call.text = <<"Removed the item from your cart.">>
    /\ LinesFor(cart_items, "u1", 1) = {}
    /\ QuantityOf(cart_items, "u2", 1) = 2

----------------------------------------------------------------------------
(* Properties of concurrent add_to_cart operations, checked under SpecSessions *)

\* C21: every add_to_cart that commits is an atomic read-modify-write: the
\* step that commits an add of q for (user, product) leaves exactly one line
\* for the pair, whose quantity is q more than the pair's quantity in the
\* store just before the commit. (Over the two operations this is the
\* initial quantity plus q1 + q2 in one line.)
C21_AddIsAtomicReadModifyWrite ==
    [][\A s \in Sessions :
         (sessions[s].pc = "selected" /\ sessions'[s].pc = "done") =>
            LET u == sessions[s].user_id
                p == sessions[s].product_id IN
            /\ Cardinality(LinesFor(cart_items', u, p)) = 1
            /\ QuantityOf(cart_items', u, p) =
                  QuantityOf(cart_items, u, p) + sessions[s].quantity
      ]_vars

----------------------------------------------------------------------------
(* Properties of the graph loop of POST "", checked under Spec *)

\* every response of the model in this request of POST "" carried tool calls
GraphAlwaysToolCalls ==
    /\ endpoint = "chat"
    /\ env.kinds # <<>>
    /\ \A i \in 1..Len(env.kinds) : env.kinds[i] = "tools"

\* C22: when every response carries tool calls, the graph loop makes at most
\* MAX_TOOL_ROUNDS + 1 model invocations; after the last of them no tools are
\* run, the loop ends without raising and the fallback text is the reply.
C22_GraphRoundCeiling ==
    GraphAlwaysToolCalls =>
        /\ Len(llm_calls) <= MAX_TOOL_ROUNDS + 1
        /\ Len(llm_calls) = MAX_TOOL_ROUNDS + 1 =>
              /\ pc \in {"save_reply", "closed"}
              /\ current_messages[Len(current_messages)].content = FALLBACK_TEXT
        /\ pc = "closed" => reply = FALLBACK_TEXT

----------------------------------------------------------------------------
(* Properties of tool side effects within a turn, checked under SpecStream *)

\* the positions of msgs that hold the result of an add_to_cart that returned
CommittedAdds(msgs) ==
    {i \in 1..Len(msgs) :
        /\ msgs[i].type = "tool"
        /\ msgs[i].name = "add_to_cart"
        /\ msgs[i].content = ToolResultText("add_to_cart")}

\* the positions of msgs that hold the error text of a tool call that failed
FailedCalls(msgs) ==
    {i \in 1..Len(msgs) :
        msgs[i].type = "tool" /\ msgs[i].content = ToolErrorText(msgs[i].name)}

\* C23: at every point of a turn, whatever happened after them (a tool
\* failure, a model failure, the round ceiling, the caller abandoning the
\* stream), the store holds what the add_to_cart calls that returned in this
\* turn committed: one line for the user's product whose quantity is the sum
\* of their quantities; and no step of the turn lowers a quantity in the store.
C23_CartMutationsStay ==
    [][endpoint' = "stream" =>
        LET u == body'.user_id
            p == ToolArgs.product_id
            adds == CommittedAdds(current_messages') IN
        /\ QuantityOf(cart_items', u, p) = Cardinality(adds) * ToolArgs.quantity
        /\ adds # {} => Cardinality(LinesFor(cart_items', u, p)) = 1
        /\ \A v \in Users, r \in ProductIds :
              QuantityOf(cart_items', v, r) >= QuantityOf(cart_items, v, r)
      ]_vars

\* an add_to_cart returned, a later tool call failed, then the model failed,
\* and the caller abandoned the stream before the assistant turn was saved:
\* the line is in the store
C23_Witness ==
    /\ pc = "abandoned"
    /\ \E i \in CommittedAdds(current_messages) :
          \E j \in FailedCalls(current_messages) : i < j
    /\ env.kinds[Len(env.kinds)] = "raise"
    /\ full_response = ERROR_TEXT
    /\ QuantityOf(cart_items, "u1", ToolArgs.product_id) = ToolArgs.quantity

----------------------------------------------------------------------------
(* Properties of cart operations that find nothing, checked under SpecCart *)

\* C24: an add of a product id that is not in the catalog leaves the table as
\* it was: the tool returns the "not found" text without raising, POST /cart
\* raises 404; the tool remove_from_cart of a product that has no line in the
\* calling user's cart returns the "not in your cart" text without raising
\* and leaves the table as it was.
C24_NotFoundLeavesCart ==
    [][/\ (cart_call'.op = "add_to_cart" /\ cart_call'.product_id \notin Products) =>
            /\ cart_items' = cart_items
            /\ cart_call'.api = "tool" =>
                  /\ ~cart_call'.raised
                  /\ cart_call'.text = <<"Product with ID ", "product_id", " not found.">>
            /\ cart_call'.api = "rest" =>
                  /\ cart_call'.raised
                  /\ cart_call'.text = <<"404 Product not found">>
       /\ (/\ cart_call'.api = "tool"
           /\ cart_call'.op = "remove_from_cart"
           /\ LinesFor(cart_items, cart_call'.user_id, cart_call'.product_id) = {}) =>
            /\ cart_items' = cart_items
            /\ ~cart_call'.raised
            /\ cart_call'.text = <<"That product is not in your cart.">>
      ]_vars

\* u1 asked to remove product 1, which only u2 holds: u1 is told it is not in
\* the cart, and u2's line is still there
C24_Witness ==
    /\ cart_call.api = "tool"
    /\ cart_call.op = "remove_from_cart"
    /\ cart_call.user_id = "u1"
    /\ cart_call.product_id = 1
    /\ cart_call.text = <<"That product is not in your cart.">>
    /\ cart_items = <<CartItem("u2", 1, 2)>>

----------------------------------------------------------------------------
(* Properties of should_continue, checked under SpecEdge *)

\* C25: the edge goes to the tools node exactly when the last message of the
\* state is an assistant message with at least one tool call; whenever the
\* last message is an assistant message without tool calls, or is not an
\* assistant message, it goes to the end, whatever the earlier messages are.
C25_ToolsIffLastHasToolCalls ==
    pc \in {"tools", "end"} =>
        LET last == current_messages[Len(current_messages)] IN
        /\ pc = "tools" <=> (last.type = "ai" /\ Len(last.tool_calls) >= 1)
        /\ pc = "end" <=> (last.type # "ai" \/ Len(last.tool_calls) = 0)

\* the state ends with a user message after an assistant message that asked
\* for tools: the edge went to the end
C25_Witness ==
    /\ pc = "end"
    /\ Len(current_messages) = 2
    /\ current_messages[1].type = "ai"
    /\ current_messages[1].tool_calls # <<>>
    /\ current_messages[2].type = "human"

----------------------------------------------------------------------------
(* Properties of the round ceiling of the streaming loop, checked under
   SpecStream *)

\* the positions of msgs that hold an assistant message with tool calls
Batches(msgs) ==
    {i \in 1..Len(msgs) : msgs[i].type = "ai" /\ msgs[i].tool_calls # <<>>}

\* the ids of the tool calls of a response
CallIds(resp) == {resp.tool_calls[i].id : i \in 1..Len(resp.tool_calls)}

\* C26: the message list of a turn never holds more than MAX_TOOL_ROUNDS
\* assistant messages with tool calls, and tool results only for their calls;
\* once the round counter is above MAX_TOOL_ROUNDS the response that pushed it
\* there is not in the list, none of its calls has a result, and the loop is
\* left.
C26_CeilingResponseNotExecuted ==
    endpoint = "stream" =>
        /\ Cardinality(Batches(current_messages)) <= MAX_TOOL_ROUNDS
        /\ Cardinality(Batches(current_messages)) =
              IF tool_rounds > MAX_TOOL_ROUNDS THEN MAX_TOOL_ROUNDS ELSE tool_rounds
        /\ \A i \in 1..Len(current_messages) :
              current_messages[i].type = "tool" =>
                  \E b \in Batches(current_messages) :
                      /\ b < i
                      /\ current_messages[i].tool_call_id \in CallIds(current_messages[b])
        /\ tool_rounds > MAX_TOOL_ROUNDS =>
              /\ tool_rounds = MAX_TOOL_ROUNDS + 1
              /\ response.tool_calls # <<>>
              /\ \A i \in 1..Len(current_messages) :
                    /\ current_messages[i] # response
                    /\ current_messages[i].tool_call_id \notin CallIds(response)
              /\ pc \in {"save_assistant", "closed", "broken", "abandoned"}

\* the sixth response asked for add_to_cart again: five batches were executed,
\* the store holds what five adds committed, and the turn closed
C26_Witness ==
    /\ pc = "closed"
    /\ tool_rounds = MAX_TOOL_ROUNDS + 1
    /\ Cardinality(Batches(current_messages)) = MAX_TOOL_ROUNDS
    /\ response.tool_calls[1].name = "add_to_cart"
    /\ Cardinality(CommittedAdds(current_messages)) = MAX_TOOL_ROUNDS

----------------------------------------------------------------------------
(* Properties of what a stream request persists, checked under SpecStream *)

\* the contents of the token events among evs from the i-th on, concatenated
RECURSIVE TokenText(_, _)
TokenText(evs, i) ==
    IF i > Len(evs) THEN <<>>
    ELSE (IF evs[i].type = "token" THEN evs[i].content ELSE <<>>)
         \o TokenText(evs, i + 1)

\* C27: once a stream request that reached the dispatch loop has saved its
\* assistant turn, the text of that turn is the concatenation, in order, of the
\* contents of all token events the request yielded.
C27_PersistedEqualsTokens ==
    (endpoint = "stream" /\ llm_calls # <<>> /\ pc = "closed") =>
        /\ messages_table[Len(messages_table)].role = "assistant"
        /\ messages_table[Len(messages_table)].content = TokenText(events, 1)

----------------------------------------------------------------------------
(* Properties of the turn log after a stream request, checked under Spec *)

\* the stream request passed the input validation, its user turn is in the
\* log, and the request is over
UserTurnSavedAndOver ==
    /\ endpoint = "stream"
    /\ ~TooLong(body.message)
    /\ pc \in {"closed", "raised", "broken"}
    /\ \E i \in 1..Len(messages_table) :
          /\ messages_table[i].conversation_id = conversation_id
          /\ messages_table[i].role = "user"
          /\ messages_table[i].content = body.message

\* C28: once a stream request that saved its user turn is over, the log of
\* its conversation alternates user, assistant and ends with the request's
\* user turn followed by one assistant turn; no user turn is left without a
\* reply.
C28_UserThenAssistant ==
    UserTurnSavedAndOver =>
        LET log == RowsOf(messages_table, conversation_id) IN
        /\ \A i \in 1..Len(log) :
              log[i].role = IF i % 2 = 1 THEN "user" ELSE "assistant"
        /\ Len(log) % 2 = 0
        /\ log[Len(log) - 1].content = body.message

----------------------------------------------------------------------------
(* Properties of the window of a request on a shared conversation, checked
   under SpecShared *)

\* C29: the context window build_context returns for a request, and the
\* message list given to the request's first model invocation, end with the
\* request's own user message, also when another request saved a turn of the
\* same conversation in the meantime and when the window was compressed.
C29_WindowEndsWithOwnMessage ==
    /\ (endpoint = "stream" /\ pc = "built") =>
          messages[Len(messages)] = HumanMessage(body.message)
    /\ (endpoint = "stream" /\ llm_calls # <<>>) =>
          submitted[Len(submitted)] = HumanMessage(body.message)

----------------------------------------------------------------------------
(* Properties of cart quantities, checked under SpecInt *)

\* C30: after every sequence of add_to_cart, remove_from_cart and clear_cart
\* operations, whatever integers were passed as quantities, every row of the
\* cart table has a quantity of at least 1.
C30_QuantityAtLeastOne ==
    \A i \in 1..Len(cart_items) : cart_items[i].quantity >= 1

====
